---- MODULE Spec2Model ----
(***************************************************************************)
(* bdsg: colour conversion, WCAG luminance/contrast with its process-wide  *)
(* luminance cache, and the contrast adjustment procedure                  *)
(* (packages/bdsg/src/color-utils.ts, contrast part of the same file,      *)
(* packages/bdsg/src/adjust.ts).                                           *)
(*                                                                         *)
(* Number representation.  The source computes in IEEE doubles; the model  *)
(* computes the same quantities exactly, as integers over fixed            *)
(* denominators:                                                           *)
(*   - HSL saturation and lightness are carried in units of 1/Fx percent   *)
(*     (Fx = 256), so that every midpoint of the two binary searches       *)
(*     (at most 8 halvings of an integer interval) is exact;               *)
(*   - a linearised sRGB channel is an integer in 0..LinScale, tabulated   *)
(*     from the gamma formula; a luminance has denominator LumScale;       *)
(*   - a contrast ratio is the pair <<lighter + 0.05, darker + 0.05>> of   *)
(*     numerators over LumScale, compared by exact fraction comparison.    *)
(* Exact arithmetic and doubles can part only where a value to be rounded  *)
(* lies within a rounding error of a half or of a threshold; the colours   *)
(* drawn as inputs are ones on which the two agree in every conversion     *)
(* and comparison made.                                                    *)
(* Hex strings are sequences of characters, a character being a           *)
(* one-character string, except the single character U+FB00 (the           *)
(* ligature of two small f), written FfLigature.                           *)
(***************************************************************************)
EXTENDS Integers, Sequences, FiniteSets, TLC

----------------------------------------------------------------------------
(* Characters and strings                                                  *)

Whitespace == {" "}

UpperHexDigits == <<"0","1","2","3","4","5","6","7","8","9","A","B","C","D","E","F">>

LowerHexDigits == <<"0","1","2","3","4","5","6","7","8","9","a","b","c","d","e","f">>

\* /[A-Fa-f\d]/
IsHexDigit(c) == \E i \in 1..16 : c = UpperHexDigits[i] \/ c = LowerHexDigits[i]

\* String.prototype.toUpperCase on one character
UpperChar(c) ==
  IF \E i \in 11..16 : c = LowerHexDigits[i]
  THEN UpperHexDigits[CHOOSE i \in 11..16 : c = LowerHexDigits[i]]
  ELSE c

\* the character U+FB00, LATIN SMALL LIGATURE FF: no hex digit, and the only
\* character outside a-f whose upper case is made of hex digits
FfLigature == "ff"

\* String.prototype.toUpperCase on a one-character string: the Unicode full
\* case mapping, which maps U+FB00 to the two characters "FF"
UpperOf(c) == IF c = FfLigature THEN <<"F", "F">> ELSE <<UpperChar(c)>>

RECURSIVE UpperFrom(_, _)

\* the upper case of s from its i-th character on
UpperFrom(s, i) ==
  IF i > Len(s) THEN << >> ELSE UpperOf(s[i]) \o UpperFrom(s, i + 1)

toUpperCase(s) == UpperFrom(s, 1)

\* String.prototype.trim
trim(s) ==
  LET keep == {i \in 1..Len(s) : s[i] \notin Whitespace}
  IN  IF keep = {} THEN <<>>
      ELSE SubSeq(s, CHOOSE i \in keep : \A j \in keep : i <= j,
                     CHOOSE i \in keep : \A j \in keep : i >= j)

\* Number.parseInt(c, 16) for one hex digit
HexVal(c) == (CHOOSE i \in 1..16 : c = UpperHexDigits[i] \/ c = LowerHexDigits[i]) - 1

\* Number.prototype.toString(16) for an integer in 0..255
toString16(n) ==
  IF n < 16 THEN <<LowerHexDigits[n + 1]>>
  ELSE <<LowerHexDigits[(n \div 16) + 1], LowerHexDigits[(n % 16) + 1]>>

\* String.prototype.padStart(2, "0")
padStart2(s) == IF Len(s) < 2 THEN <<"0">> \o s ELSE s

\* the element of a one-element set. The({F(x) : x \in {v}}) is F(v) with v
\* evaluated once, as an argument is in the source, however often F uses it
The(S) == CHOOSE y \in S : TRUE

Max2(a, b) == IF a >= b THEN a ELSE b

Min2(a, b) == IF a <= b THEN a ELSE b

Abs(x) == IF x < 0 THEN 0 - x ELSE x

----------------------------------------------------------------------------
(* color-utils.ts: hex <-> RGB                                             *)

\* normalizeHex, lines 32-35: add # if missing
AddHash(t) == IF Len(t) >= 1 /\ t[1] = "#" THEN t ELSE <<"#">> \o t

\* normalizeHex, lines 37-44: /^#([A-Fa-f\d])([A-Fa-f\d])([A-Fa-f\d])$/ to #RRGGBB
ExpandShorthand(n) ==
  IF Len(n) = 4 /\ \A i \in 2..4 : IsHexDigit(n[i])
  THEN <<"#", n[2], n[2], n[3], n[3], n[4], n[4]>>
  ELSE n

normalizeHex(hex) ==
  The({toUpperCase(n) :
         n \in {ExpandShorthand(a) : a \in {AddHash(t) : t \in {trim(hex)}}}})

\* hexToRgb, line 68: /^#([A-F\d]{2})([A-F\d]{2})([A-F\d]{2})$/i
MatchesFullHex(n) == Len(n) = 7 /\ n[1] = "#" /\ \A i \in 2..7 : IsHexDigit(n[i])

\* hexToRgb, lines 76-82: the three groups parsed
ParseGroups(n) ==
  [r |-> 16 * HexVal(n[2]) + HexVal(n[3]),
   g |-> 16 * HexVal(n[4]) + HexVal(n[5]),
   b |-> 16 * HexVal(n[6]) + HexVal(n[7])]

\* hexToRgb returns when ValidHex(hex) and throws otherwise
ValidHex(hex) == \E normalized \in {normalizeHex(hex)} : MatchesFullHex(normalized)

\* defined for ValidHex(hex)
hexToRgb(hex) == The({ParseGroups(normalized) : normalized \in {normalizeHex(hex)}})

\* toHex without padStart: one digit for a channel below 16
toHexUnpadded(n) == toString16(Max2(0, Min2(255, n)))

toHex(n) == padStart2(toString16(Max2(0, Min2(255, n))))

\* rgbToHex without its leading #
rgbToHexNoHash(rgb) == toHex(rgb.r) \o toHex(rgb.g) \o toHex(rgb.b)

rgbToHex(rgb) == <<"#">> \o toHex(rgb.r) \o toHex(rgb.g) \o toHex(rgb.b)

----------------------------------------------------------------------------
(* color-utils.ts: RGB <-> HSL                                             *)

\* fixed-point unit of HSL saturation and lightness: 1 percent = Fx units
Fx == 256

\* Math.round(n / d) for n >= 0, d > 0
RoundDiv(n, d) == (2 * n + d) \div (2 * d)

\* rgbToHsl, lines 132-156, with max, min over 255 and delta = max - min.
\* h in degrees; s, l in 1/Fx percent (always whole percents here)
HslOf(rgb, max, min, delta) ==
  [h |-> \* h * 360 = 60 * (sector offset + difference / delta)
         IF delta = 0 THEN 0
         ELSE IF max = rgb.r
              THEN RoundDiv(60 * (rgb.g - rgb.b)
                            + (IF rgb.g < rgb.b THEN 360 * delta ELSE 0), delta)
         ELSE IF max = rgb.g
              THEN RoundDiv(60 * (rgb.b - rgb.r) + 120 * delta, delta)
         ELSE RoundDiv(60 * (rgb.r - rgb.g) + 240 * delta, delta),
   s |-> \* s = l > 0.5 ? delta / (2 - max - min) : delta / (max + min)
         Fx * (IF delta = 0 THEN 0
               ELSE IF max + min > 255 THEN RoundDiv(100 * delta, 510 - max - min)
               ELSE RoundDiv(100 * delta, max + min)),
   l |-> Fx * RoundDiv(100 * (max + min), 510)]

Max3(a, b, c) == Max2(a, Max2(b, c))

Min3(a, b, c) == Min2(a, Min2(b, c))

rgbToHsl(rgb) ==
  HslOf(rgb, Max3(rgb.r, rgb.g, rgb.b), Min3(rgb.r, rgb.g, rgb.b),
        Max3(rgb.r, rgb.g, rgb.b) - Min3(rgb.r, rgb.g, rgb.b))

\* the inner function of hslToRgb, with t in degrees (t * 360) and the result
\* as the weight F of (q - p) in sixtieths: value = p + (q - p) * F / 60
HueWeight(t) ==
  IF t < 60 THEN t
  ELSE IF t < 180 THEN 60
  ELSE IF t < 240 THEN 240 - t
  ELSE 0

\* if (t < 0) t += 1
WrapBelow(t) == IF t < 0 THEN t + 360 ELSE t

\* if (t > 1) t -= 1
WrapAbove(t) == IF t > 360 THEN t - 360 ELSE t

hue2rgb(tParam) == HueWeight(WrapAbove(WrapBelow(tParam)))

\* One channel of hslToRgb, Math.round(value * 255).  With D = 100 * Fx,
\* s = S / D and l = L / D:  q - p = s * (1 - |2l - 1|) = C / (D * 100) with
\* C = S * (D - |2L - D|) / Fx, p = l - (q - p) / 2, hence
\* value = X / (60 * D * 100) with X = 6000 * L + C * (F - 30), and
\* value * 255 = 17 * X / M with M = 4 * D * 100; Round255 rounds 17 * X / M
\* half up without forming 17 * X.
Round255(X, M) == 17 * (X \div M) + ((34 * (X % M) + M) \div (2 * M))

HslChannel(S, L, F) ==
  Round255(6000 * L
             + ((S * (100 * Fx - Abs(2 * L - 100 * Fx))) \div Fx) * (F - 30),
           400 * 100 * Fx)

Gray(v) == [r |-> v, g |-> v, b |-> v]

hslToRgb(hsl) ==
  IF hsl.s = 0
  THEN Gray(HslChannel(0, hsl.l, 0))
  ELSE [r |-> HslChannel(hsl.s, hsl.l, hue2rgb(hsl.h + 120)),
        g |-> HslChannel(hsl.s, hsl.l, hue2rgb(hsl.h)),
        b |-> HslChannel(hsl.s, hsl.l, hue2rgb(hsl.h - 120))]

hexToHsl(hex) == The({rgbToHsl(rgb) : rgb \in {hexToRgb(hex)}})

hslToHex(hsl) == The({rgbToHex(rgb) : rgb \in {hslToRgb(hsl)}})

----------------------------------------------------------------------------
(* contrast: relative luminance and its cache                              *)

LinScale == 100000

\* LinearChannel[c + 1] = round(LinScale * lin(c / 255)) where
\* lin(x) = x <= 0.03928 ? x / 12.92 : ((x + 0.055) / 1.055) ** 2.4
LinearChannel ==
  <<
     0, 30, 61, 91, 121, 152, 182, 212, 243, 273, 304, 335,
     368, 402, 439, 478, 518, 561, 605, 651, 700, 750, 802, 857,
     913, 972, 1033, 1096, 1161, 1229, 1298, 1370, 1444, 1521, 1600, 1681,
     1764, 1850, 1938, 2029, 2122, 2217, 2315, 2416, 2519, 2624, 2732, 2843,
     2956, 3071, 3190, 3310, 3434, 3560, 3689, 3820, 3955, 4092, 4231, 4374,
     4519, 4667, 4817, 4971, 5127, 5286, 5448, 5613, 5781, 5951, 6125, 6301,
     6480, 6663, 6848, 7036, 7227, 7421, 7619, 7819, 8022, 8228, 8438, 8650,
     8866, 9084, 9306, 9531, 9759, 9990, 10224, 10462, 10702, 10946, 11193, 11444,
     11697, 11954, 12214, 12477, 12744, 13014, 13287, 13563, 13843, 14126, 14413, 14703,
     14996, 15293, 15593, 15896, 16203, 16513, 16827, 17144, 17465, 17789, 18116, 18447,
     18782, 19120, 19462, 19807, 20156, 20508, 20864, 21223, 21586, 21953, 22323, 22697,
     23074, 23455, 23840, 24228, 24620, 25016, 25415, 25818, 26225, 26636, 27050, 27468,
     27889, 28315, 28744, 29177, 29614, 30054, 30499, 30947, 31399, 31855, 32314, 32778,
     33245, 33716, 34191, 34670, 35153, 35640, 36131, 36625, 37124, 37626, 38133, 38643,
     39157, 39676, 40198, 40724, 41254, 41789, 42327, 42869, 43415, 43966, 44520, 45079,
     45641, 46208, 46778, 47353, 47932, 48515, 49102, 49693, 50289, 50888, 51492, 52100,
     52712, 53328, 53948, 54572, 55201, 55834, 56471, 57112, 57758, 58408, 59062, 59720,
     60383, 61050, 61721, 62396, 63076, 63760, 64448, 65141, 65837, 66539, 67244, 67954,
     68669, 69387, 70110, 70838, 71569, 72306, 73046, 73791, 74540, 75294, 76052, 76815,
     77582, 78354, 79130, 79910, 80695, 81485, 82279, 83077, 83880, 84687, 85499, 86316,
     87137, 87962, 88792, 89627, 90466, 91310, 92158, 93011, 93869, 94731, 95597, 96469,
     97345, 98225, 99110, 100000
  >>

\* 0.2126 * rLinear + 0.7152 * gLinear + 0.0722 * bLinear, over LumScale
LumScale == 10000 * LinScale

Luminance(rgb) ==
  2126 * LinearChannel[rgb.r + 1] + 7152 * LinearChannel[rgb.g + 1]
    + 722 * LinearChannel[rgb.b + 1]


----------------------------------------------------------------------------
(* Ratios: a ratio is a pair <<numerator, denominator>> with denominator   *)
(* > 0; the source compares doubles with >= and >                          *)

RECURSIVE CmpFrac(_, _, _, _)
\* -1, 0 or 1 as a / b is below, equal to or above c / d (a, c >= 0; b, d > 0)
CmpFrac(a, b, c, d) ==
  IF a \div b # c \div d THEN (IF a \div b < c \div d THEN 0 - 1 ELSE 1)
  ELSE IF a % b = 0 /\ c % d = 0 THEN 0
  ELSE IF a % b = 0 THEN 0 - 1
  ELSE IF c % d = 0 THEN 1
  ELSE CmpFrac(d, c % d, b, a % b)

RatioGE(x, y) == CmpFrac(x[1], x[2], y[1], y[2]) >= 0

RatioGT(x, y) == CmpFrac(x[1], x[2], y[1], y[2]) > 0

WCAG_REQUIREMENTS ==
  [AA  |-> [normal |-> <<9, 2>>, large |-> <<3, 1>>, ui |-> <<3, 1>>],
   AAA |-> [normal |-> <<7, 1>>, large |-> <<9, 2>>, ui |-> <<3, 1>>]]

WCAGLevel == {"AA", "AAA"}

TextSize == {"normal", "large"}

\* the comparison made strict
meetsWCAGStrict(ratio, level, size) == RatioGT(ratio, WCAG_REQUIREMENTS[level][size])

meetsWCAG(ratio, level, size) == RatioGE(ratio, WCAG_REQUIREMENTS[level][size])

\* lines 430-432
ComplianceLevel(AA, AAA) == IF AAA THEN "AAA" ELSE IF AA THEN "AA" ELSE "fail"

\* lines 434-439
ComplianceOf(ratio, AA, AAA) ==
  [ratio |-> ratio, AA |-> AA, AAA |-> AAA, level |-> ComplianceLevel(AA, AAA)]

getWCAGCompliance(ratio, size) ==
  ComplianceOf(ratio, meetsWCAG(ratio, "AA", size), meetsWCAG(ratio, "AAA", size))

----------------------------------------------------------------------------
(* contrast: the luminance cache.  A call that reads or writes the cache   *)
(* is an operator from the cache to a record [ok, value, cache, looked]:   *)
(* ok is FALSE when the call throws, cache is the cache it leaves behind,  *)
(* looked is the set of keys whose lookup returned a value during the call *)
(* (a log kept for the properties; the program has no such field).         *)

EmptyCache == << >>

\* the argument itself as the key
CacheKeyRaw(hex) == hex

\* the key with the # added and shorthand expanded
CacheKeyExpanded(hex) == normalizeHex(hex)

\* the cache key of getRelativeLuminance: hex.trim().toUpperCase()
CacheKey(hex) == toUpperCase(trim(hex))

\* an entry stored before the colour is validated
LuminanceLookupStoresFirst(cache, hex, normalizedHex) ==
  IF normalizedHex \in DOMAIN cache
  THEN [ok |-> TRUE, value |-> cache[normalizedHex], cache |-> cache,
        looked |-> {normalizedHex}]
  ELSE IF ~ValidHex(hex)
  THEN [ok |-> FALSE, value |-> 0, cache |-> (normalizedHex :> 0) @@ cache,
        looked |-> {}]
  ELSE [ok |-> TRUE, value |-> Luminance(hexToRgb(hex)),
        cache |-> (normalizedHex :> Luminance(hexToRgb(hex))) @@ cache,
        looked |-> {normalizedHex}]

\* lines 307-311: luminanceCache.set(normalizedHex, luminance); return luminance
CacheSet(cache, normalizedHex, luminance) ==
  [ok |-> TRUE, value |-> luminance,
   cache |-> (normalizedHex :> luminance) @@ cache,
   looked |-> {normalizedHex}]

\* lines 287-311, with normalizedHex the key of hex
LuminanceLookup(cache, hex, normalizedHex) ==
  IF normalizedHex \in DOMAIN cache
  THEN [ok |-> TRUE, value |-> cache[normalizedHex], cache |-> cache,
        looked |-> {normalizedHex}]
  ELSE IF ~ValidHex(hex)
  THEN [ok |-> FALSE, value |-> 0, cache |-> cache, looked |-> {}]
  ELSE CacheSet(cache, normalizedHex, Luminance(hexToRgb(hex)))

getRelativeLuminance(cache, hex) ==
  The({LuminanceLookup(cache, hex, normalizedHex) :
         normalizedHex \in {CacheKey(hex)}})

\* a reset that drops nothing
clearLuminanceCacheKeeps(cache) == cache

clearLuminanceCache(cache) == EmptyCache

\* the ratio of the two luminances in the order given
ContrastOfUnordered(l1, l2) ==
  IF ~l2.ok
  THEN [ok |-> FALSE, value |-> <<1, 1>>, cache |-> l2.cache, looked |-> l1.looked]
  ELSE [ok |-> TRUE,
        value |-> <<l1.value + LumScale \div 20, l2.value + LumScale \div 20>>,
        cache |-> l2.cache, looked |-> l1.looked \cup l2.looked]

\* (lighter + 0.05) / (darker + 0.05)
\* lines 339-342, from the two lookups
ContrastOf(l1, l2) ==
  IF ~l2.ok
  THEN [ok |-> FALSE, value |-> <<1, 1>>, cache |-> l2.cache, looked |-> l1.looked]
  ELSE [ok |-> TRUE,
        value |-> <<Max2(l1.value, l2.value) + LumScale \div 20,
                    Min2(l1.value, l2.value) + LumScale \div 20>>,
        cache |-> l2.cache, looked |-> l1.looked \cup l2.looked]

\* lines 336-337: the second lookup runs on the cache the first one left
ContrastAfter(l1, background) ==
  IF ~l1.ok
  THEN [ok |-> FALSE, value |-> <<1, 1>>, cache |-> l1.cache, looked |-> {}]
  ELSE The({ContrastOf(l1, l2) :
              l2 \in {getRelativeLuminance(l1.cache, background)}})

calculateContrast(cache, foreground, background) ==
  The({ContrastAfter(l1, background) :
         l1 \in {getRelativeLuminance(cache, foreground)}})


----------------------------------------------------------------------------
(* State                                                                   *)

VARIABLES
  luminanceCache,  \* contrast: the process-wide Map from key to luminance
  pc,              \* position of the call in progress
  request,         \* the call in progress and its arguments
  fgHsl,           \* adjustColorForContrast: locals
  shouldLighten,
  low,
  high,
  bestResult,      \* << >> for null, else <<[l |-> .., ratio |-> ..]>>
  iterations,
  result,          \* the AdjustmentResult returned by adjustColorForContrast
  variations,      \* the ColorVariations returned by generateAccessibleVariations
  returned,        \* the outcome of the last call, when it was one of the contrast API
  lookedUp,        \* keys whose lookup returned a value during the last step
  tested,          \* number of midpoints turned into a test colour by this call
  calls            \* number of API calls made so far

locals == <<fgHsl, shouldLighten, low, high, bestResult, iterations, tested>>

vars == <<luminanceCache, pc, request, fgHsl, shouldLighten, low, high,
          bestResult, iterations, result, variations, returned, lookedUp, tested,
          calls>>

NoResult ==
  [original |-> << >>, adjusted |-> << >>, ratio |-> <<1, 1>>, iterations |-> 0,
   strategy |-> "none"]

NoVariations == [base |-> << >>, light |-> << >>, dark |-> << >>, text |-> << >>]

\* cached: the cache held the key of hex (for clearLuminanceCache: held any
\* entry) when the call was made
NoReturn ==
  [api |-> "none", hex |-> << >>, background |-> << >>, ok |-> TRUE, value |-> 0,
   cached |-> FALSE]

NoRequest ==
  [op |-> "none", foreground |-> << >>, background |-> << >>,
   targetLevel |-> "AA", textSize |-> "normal"]

WHITE == <<"#","f","f","f","f","f","f">>

BLACK == <<"#","0","0","0","0","0","0">>

----------------------------------------------------------------------------
(* Inputs                                                                  *)

\* number of foreground / base colours and of background colours drawn
NumFg == 17

NumBg == 9

FgList ==
  <<
     <<"#","F","F","6","B","6","B">>,
     <<"#","8","7","C","E","E","B">>,
     <<"#","F","E","F","E","F","E">>,
     <<"#","0","1","0","1","0","1">>,
     <<"#","8","0","8","0","8","0">>,
     <<"#","F","0","0">>,
     <<"#","f","f","0","0","0","0">>,
     <<" "," ","#","0","0","0","0","0","0"," ">>,
     <<"F","F","F","F","F","F">>,
     <<"#","3","3","3","3","3","3">>,
     <<"#","B","B","F","7","A","7">>,
     <<"#","3","B","8","2","F","6">>,
     <<"#","F","F","F","F","0","0">>,
     <<"#","A","A","A","A","A","A">>,
     <<"#","F","F","F","F","C","C">>,
     <<"#","1","E","3","A","5","F">>,
     <<"#","f","f","f">>,
     <<"#","7","6","7","6","7","6">>
  >>

BgList ==
  <<
     <<"#","F","F","F","F","F","F">>,
     <<"#","0","0","0","0","0","0">>,
     <<"#","7","F","7","F","7","F">>,
     <<"#","4","4","4","4","4","4">>,
     <<"#","F","F","F">>,
     <<"#","7","7","7","7","7","7">>,
     <<"#","B","F","D","9","1","3">>,
     <<"#","0","0","7","f","7","f">>,
     <<" ","#","1","a","1","a","1","a">>,
     <<"F","E","0","3","F","A">>
  >>

FgInputs == {FgList[i] : i \in 1..Min2(NumFg, Len(FgList))}

BgInputs == {BgList[i] : i \in 1..Min2(NumBg, Len(BgList))}

AdjustRequests ==
  [op : {"adjustColorForContrast"}, foreground : FgInputs, background : BgInputs,
   targetLevel : WCAGLevel, textSize : TextSize]

\* generateAccessibleVariations always asks for AA / normal
VariationRequests ==
  [op : {"generateAccessibleVariations"}, foreground : FgInputs,
   background : BgInputs, targetLevel : {"AA"}, textSize : {"normal"}]


----------------------------------------------------------------------------
(* adjust.ts: adjustColorForContrast, one action per straight-line piece   *)
(* and one per loop iteration                                              *)

targetRatio == WCAG_REQUIREMENTS[request.targetLevel][request.textSize]

\* a return of adjustColorForContrast: to the caller when the call came from
\* generateAccessibleVariations, else the call is over
\* the result handed back with its original colour normalised
ReturnNormalized(r) ==
  /\ result' = [r EXCEPT !.original = normalizeHex(r.original)]
  /\ pc' = IF request.op = "generateAccessibleVariations" THEN "variations" ELSE "done"

Return(r) ==
  /\ result' = r
  /\ pc' = IF request.op = "generateAccessibleVariations" THEN "variations" ELSE "done"

\* an exception leaves the call in progress, whichever it is
Throw == pc' = "threw" /\ UNCHANGED result

\* the comparison made against the AA large threshold whatever the target
MeetsTargetLoose(ratio, target) == RatioGE(ratio, WCAG_REQUIREMENTS.AA.large)

\* no ratio taken to meet the target
MeetsTargetNever(ratio, target) == FALSE

\* lines 61, 91, 129: ratio >= targetRatio
MeetsTarget(ratio, target) == RatioGE(ratio, target)

\* the shortcut returning the normalised colour instead of the argument
ShortcutResultNormalized(foreground, initialRatio) ==
  [original |-> foreground, adjusted |-> normalizeHex(foreground),
   ratio |-> initialRatio, iterations |-> 0, strategy |-> "lightness"]

ShortcutResult(foreground, initialRatio) ==
  [original |-> foreground, adjusted |-> foreground, ratio |-> initialRatio,
   iterations |-> 0, strategy |-> "lightness"]

\* lines 57-83: target, shortcut, set-up of the lightness search
AdjustEnter ==
  /\ pc = "start"
  /\ \E initial \in {calculateContrast(luminanceCache, request.foreground,
                                        request.background)} :
         IF ~initial.ok
         THEN /\ Throw
              /\ luminanceCache' = initial.cache
              /\ lookedUp' = initial.looked
              /\ UNCHANGED locals
         ELSE IF MeetsTarget(initial.value, targetRatio)
         THEN /\ Return(ShortcutResult(request.foreground, initial.value))
              /\ luminanceCache' = initial.cache
              /\ lookedUp' = initial.looked
              /\ UNCHANGED locals
         ELSE \E hsl \in {hexToHsl(request.foreground)},
                 fgLuminance \in {getRelativeLuminance(initial.cache,
                                                       request.foreground)} :
              \E bgLuminance \in {getRelativeLuminance(fgLuminance.cache,
                                                       request.background)} :
              \E lighten \in {fgLuminance.value < bgLuminance.value} :
                  /\ fgHsl' = hsl
                  /\ shouldLighten' = lighten
                  /\ iterations' = 0
                  /\ tested' = 0
                  /\ low' = (IF lighten THEN hsl.l ELSE 0)
                  /\ high' = (IF lighten THEN 100 * Fx ELSE hsl.l)
                  /\ bestResult' = << >>
                  /\ luminanceCache' = bgLuminance.cache
                  /\ lookedUp' = initial.looked \cup fgLuminance.looked
                                   \cup bgLuminance.looked
                  /\ pc' = "phase1"
                  /\ UNCHANGED result
  /\ UNCHANGED <<request, variations, returned, calls>>

\* line 85: high - low > 0.5 && iterations < 20
\* the lightness loop running until the interval is an eighth of a percent
Phase1ContinueNarrow(lo, hi, it) == hi - lo > Fx \div 8 /\ it < 20

Phase1Continue(lo, hi, it) == hi - lo > Fx \div 2 /\ it < 20

\* line 123: high - low > 1 && iterations < 40
Phase2Continue(lo, hi, it) == hi - lo > Fx /\ it < 40

\* the counter incremented twice per iteration
CountIterationTwice(it) == it + 2

\* the counter never incremented
CountIterationNone(it) == it

\* lines 89, 127: iterations++
CountIteration(it) == it + 1

\* lines 86-104: one iteration of the lightness search
Phase1Step ==
  /\ pc = "phase1"
  /\ Phase1Continue(low, high, iterations)
  /\ \E mid \in {(low + high) \div 2} :
     \E testColor \in {hslToHex([fgHsl EXCEPT !.l = mid])} :
     \E c \in {calculateContrast(luminanceCache, testColor, request.background)} :
         /\ luminanceCache' = c.cache
         /\ lookedUp' = c.looked
         /\ tested' = tested + 1
         /\ IF ~c.ok
            THEN Throw /\ UNCHANGED <<low, high, bestResult, iterations>>
            ELSE /\ iterations' = CountIteration(iterations)
                 /\ IF MeetsTarget(c.value, targetRatio)
                    THEN /\ bestResult' = <<[l |-> mid, ratio |-> c.value]>>
                         /\ IF shouldLighten
                            THEN high' = mid /\ low' = low
                            ELSE low' = mid /\ high' = high
                    ELSE /\ bestResult' = bestResult
                         /\ IF shouldLighten
                            THEN low' = mid /\ high' = high
                            ELSE high' = mid /\ low' = low
                 /\ UNCHANGED <<pc, result>>
  /\ UNCHANGED <<request, fgHsl, shouldLighten, variations, returned, calls>>

\* the lightness result built from the best lightness rounded to a whole
\* percent, with the ratio measured at the unrounded one
LightnessResultRounded(foreground, hsl, best, it) ==
  [original |-> foreground,
   adjusted |-> hslToHex([hsl EXCEPT !.l = (best.l \div Fx) * Fx]),
   ratio |-> best.ratio, iterations |-> it, strategy |-> "lightness"]

\* lines 107-116: the colour at the best lightness with the ratio measured there
LightnessResult(foreground, hsl, best, it) ==
  [original |-> foreground,
   adjusted |-> hslToHex([hsl EXCEPT !.l = best.l]),
   ratio |-> best.ratio, iterations |-> it, strategy |-> "lightness"]

\* lines 107-121: leave the lightness search
Phase1Exit ==
  /\ pc = "phase1"
  /\ ~Phase1Continue(low, high, iterations)
  /\ IF bestResult # << >>
     THEN /\ Return(LightnessResult(request.foreground, fgHsl, bestResult[1],
                                    iterations))
          /\ UNCHANGED <<low, high>>
     ELSE /\ low' = 0
          /\ high' = fgHsl.s
          /\ pc' = "phase2"
          /\ UNCHANGED result
  /\ lookedUp' = {}
  /\ UNCHANGED <<luminanceCache, request, fgHsl, shouldLighten, bestResult,
                 iterations, tested, variations, returned, calls>>

maxedLightness == IF shouldLighten THEN 98 * Fx ELSE 2 * Fx

\* lines 124-134: one iteration of the saturation search
Phase2Step ==
  /\ pc = "phase2"
  /\ Phase2Continue(low, high, iterations)
  /\ \E mid \in {(low + high) \div 2} :
     \E testColor \in {hslToHex([h |-> fgHsl.h, s |-> mid, l |-> maxedLightness])} :
     \E c \in {calculateContrast(luminanceCache, testColor, request.background)} :
         /\ luminanceCache' = c.cache
         /\ lookedUp' = c.looked
         /\ tested' = tested + 1
         /\ IF ~c.ok
            THEN Throw /\ UNCHANGED <<low, high, bestResult, iterations>>
            ELSE /\ iterations' = CountIteration(iterations)
                 /\ IF MeetsTarget(c.value, targetRatio)
                    THEN /\ bestResult' = <<[l |-> mid, ratio |-> c.value]>>
                         /\ low' = mid
                         /\ high' = high
                    ELSE /\ bestResult' = bestResult
                         /\ high' = mid
                         /\ low' = low
                 /\ UNCHANGED <<pc, result>>
  /\ UNCHANGED <<request, fgHsl, shouldLighten, variations, returned, calls>>

\* lines 137-150: leave the saturation search
Phase2Exit ==
  /\ pc = "phase2"
  /\ ~Phase2Continue(low, high, iterations)
  /\ IF bestResult # << >>
     THEN Return([original |-> request.foreground,
                  adjusted |-> hslToHex([h |-> fgHsl.h, s |-> bestResult[1].l,
                                         l |-> maxedLightness]),
                  ratio |-> bestResult[1].ratio,
                  iterations |-> iterations,
                  strategy |-> "chroma"])
     ELSE pc' = "phase3" /\ UNCHANGED result
  /\ lookedUp' = {}
  /\ UNCHANGED <<luminanceCache, request, locals, variations, returned, calls>>

\* the comparison of line 156 reversed: the worse of white and black
FallbackResultWorse(foreground, whiteRatio, blackRatio, it) ==
  IF RatioGT(blackRatio, whiteRatio)
  THEN [original |-> foreground, adjusted |-> WHITE, ratio |-> whiteRatio,
        iterations |-> it, strategy |-> "fallback"]
  ELSE [original |-> foreground, adjusted |-> BLACK, ratio |-> blackRatio,
        iterations |-> it, strategy |-> "fallback"]

\* the fallback without its white branch
FallbackResultBlack(foreground, whiteRatio, blackRatio, it) ==
  [original |-> foreground, adjusted |-> BLACK, ratio |-> blackRatio,
   iterations |-> it, strategy |-> "fallback"]

\* the better colour reported with the ratio of the other one
FallbackResultOtherRatio(foreground, whiteRatio, blackRatio, it) ==
  IF RatioGT(whiteRatio, blackRatio)
  THEN [original |-> foreground, adjusted |-> WHITE, ratio |-> blackRatio,
        iterations |-> it, strategy |-> "fallback"]
  ELSE [original |-> foreground, adjusted |-> BLACK, ratio |-> whiteRatio,
        iterations |-> it, strategy |-> "fallback"]

\* lines 156-170: the better of white and black
FallbackResult(foreground, whiteRatio, blackRatio, it) ==
  IF RatioGT(whiteRatio, blackRatio)
  THEN [original |-> foreground, adjusted |-> WHITE, ratio |-> whiteRatio,
        iterations |-> it, strategy |-> "fallback"]
  ELSE [original |-> foreground, adjusted |-> BLACK, ratio |-> blackRatio,
        iterations |-> it, strategy |-> "fallback"]

\* lines 152-170
Fallback ==
  /\ pc = "phase3"
  /\ \E whiteRatio \in {calculateContrast(luminanceCache, WHITE,
                                           request.background)} :
     \E blackRatio \in {calculateContrast(whiteRatio.cache, BLACK,
                                           request.background)} :
         /\ luminanceCache' = blackRatio.cache
         /\ lookedUp' = whiteRatio.looked \cup blackRatio.looked
         /\ IF ~whiteRatio.ok \/ ~blackRatio.ok
            THEN Throw
            ELSE Return(FallbackResult(request.foreground, whiteRatio.value,
                                       blackRatio.value, iterations))
  /\ UNCHANGED <<request, locals, variations, returned, calls>>

----------------------------------------------------------------------------
(* adjust.ts: generateAccessibleVariations, after its call of              *)
(* adjustColorForContrast has returned (lines 221-247)                     *)

GenerateVariations ==
  /\ pc = "variations"
  /\ IF ~ValidHex(result.adjusted)
     THEN \* hexToHsl throws before anything is looked up
          /\ pc' = "threw"
          /\ lookedUp' = {}
          /\ UNCHANGED <<luminanceCache, variations>>
     ELSE \E baseHsl \in {hexToHsl(result.adjusted)},
             whiteContrast \in {calculateContrast(luminanceCache, WHITE,
                                                  result.adjusted)} :
          \E blackContrast \in {calculateContrast(whiteContrast.cache, BLACK,
                                                  result.adjusted)} :
            /\ luminanceCache' = blackContrast.cache
            /\ lookedUp' = whiteContrast.looked \cup blackContrast.looked
            /\ variations' =
                 [base |-> result.adjusted,
                  light |-> hslToHex([h |-> baseHsl.h,
                                      s |-> Max2(0, baseHsl.s - 10 * Fx),
                                      l |-> Min2(100 * Fx, baseHsl.l + 30 * Fx)]),
                  dark |-> hslToHex([h |-> baseHsl.h,
                                     s |-> Min2(100 * Fx, baseHsl.s + 10 * Fx),
                                     l |-> Max2(0, baseHsl.l - 30 * Fx)]),
                  text |-> IF RatioGT(whiteContrast.value, blackContrast.value)
                           THEN WHITE ELSE BLACK]
            /\ pc' = "done"
  /\ UNCHANGED <<request, locals, result, returned, calls>>

----------------------------------------------------------------------------
(* One call of adjustColorForContrast or generateAccessibleVariations on   *)
(* a fresh process                                                         *)

InitLocals ==
  /\ fgHsl = [h |-> 0, s |-> 0, l |-> 0]
  /\ shouldLighten = FALSE
  /\ low = 0
  /\ high = 0
  /\ bestResult = << >>
  /\ iterations = 0
  /\ tested = 0

Init ==
  /\ luminanceCache = EmptyCache
  /\ request \in AdjustRequests \cup VariationRequests
  /\ pc = "start"
  /\ InitLocals
  /\ result = NoResult
  /\ variations = NoVariations
  /\ returned = NoReturn
  /\ lookedUp = {}
  /\ calls = 1

Next ==
  \/ AdjustEnter
  \/ Phase1Step
  \/ Phase1Exit
  \/ Phase2Step
  \/ Phase2Exit
  \/ Fallback
  \/ GenerateVariations

Spec == Init /\ [][Next]_vars

\* the call runs to its end: it is never suspended
FairSpec == Spec /\ WF_vars(Next)


----------------------------------------------------------------------------
(* Properties of adjustColorForContrast and generateAccessibleVariations,  *)
(* checked under Spec (FairSpec for termination)                           *)

\* adjustColorForContrast has returned
Returned == pc \in {"done", "variations"}

\* calculateContrast on an empty cache
FreshContrast(a, b) == calculateContrast(EmptyCache, a, b).value

Meets(hex) == RatioGE(FreshContrast(hex, request.background), targetRatio)

AlreadyMeets == Meets(request.foreground)

BlackOrWhiteMeets == Meets(WHITE) \/ Meets(BLACK)

BetterOf(x, y) == IF RatioGT(x, y) THEN x ELSE y

\* some colour with the hue and saturation of hsl and a whole-percent
\* lightness in lo..hi meets the target
SomeLightnessMeets(hsl, lo, hi) ==
  \E l \in lo..hi : Meets(hslToHex([hsl EXCEPT !.l = l * Fx]))

\* C1 as stated: every returned result has ratio >= the target ratio.
C1_RatioAlwaysMeetsTarget ==
  Returned => RatioGE(result.ratio, targetRatio)

\* C1 amended: the returned ratio is >= the target whenever black or white
\* meets the target against the background; otherwise (which happens only for
\* AAA normal) the result is the fallback with the better of the two ratios.
C1_RatioMeetsTargetWhenReachable ==
  Returned =>
    IF BlackOrWhiteMeets
    THEN RatioGE(result.ratio, targetRatio)
    ELSE /\ result.strategy = "fallback"
         /\ result.ratio = BetterOf(FreshContrast(WHITE, request.background),
                                    FreshContrast(BLACK, request.background))
         /\ request.targetLevel = "AAA" /\ request.textSize = "normal"

C1_Witness ==
  /\ Returned
  /\ result.iterations > 0
  /\ BlackOrWhiteMeets
  /\ RatioGE(result.ratio, targetRatio)
  /\ request.targetLevel = "AAA" /\ request.textSize = "normal"

\* C2: when some colour with the foreground's HSL hue and saturation and a
\* lightness in [0,100] meets the target against the background, the returned
\* ratio is >= the target, whatever the strategy.
C2_MeetsWhenLightnessSolutionExists ==
  (Returned /\ SomeLightnessMeets(hexToHsl(request.foreground), 0, 100))
    => RatioGE(result.ratio, targetRatio)

C2_Witness ==
  /\ Returned
  /\ ~AlreadyMeets
  /\ result.strategy = "fallback"
  /\ SomeLightnessMeets(hexToHsl(request.foreground), 1, 99)
  /\ RatioGE(result.ratio, targetRatio)

Strategies == {"lightness", "chroma", "fallback"}

\* C3: every call terminates and returns a result (it never throws), with a
\* strategy among lightness, chroma and fallback.
C3_TerminatesWithStrategy ==
  <>(Returned /\ result.strategy \in Strategies)

C3_Witness ==
  /\ pc = "done"
  /\ result.strategy = "fallback"
  /\ result.iterations >= 14

\* C4: when the initial contrast already meets the target, the result has
\* iterations = 0, strategy = "lightness", ratio = the initial contrast, and
\* original and adjusted equal to the foreground argument exactly as passed.
C4_ShortcutReturnsArgumentUnchanged ==
  (Returned /\ AlreadyMeets) =>
    result = [original |-> request.foreground,
              adjusted |-> request.foreground,
              ratio |-> FreshContrast(request.foreground, request.background),
              iterations |-> 0,
              strategy |-> "lightness"]

\* a compliant foreground that is not written in canonical form
C4_Witness ==
  /\ Returned
  /\ AlreadyMeets
  /\ request.foreground # normalizeHex(request.foreground)
  /\ request.foreground # rgbToHex(hexToRgb(request.foreground))
  /\ result.adjusted = request.foreground

IsWhite(hex) == hexToRgb(hex) = [r |-> 255, g |-> 255, b |-> 255]

\* C5: a chromatic foreground that fails AA/normal against white, and for
\* which a darker colour of the same hue and saturation meets 4.5, yields
\* strategy "lightness" and an adjusted colour with the original's HSL hue.
C5_HuePreservedOnWhite ==
  ( /\ Returned
    /\ request.targetLevel = "AA" /\ request.textSize = "normal"
    /\ IsWhite(request.background)
    /\ hexToHsl(request.foreground).s > 0
    /\ ~AlreadyMeets
    /\ SomeLightnessMeets(hexToHsl(request.foreground), 0,
                          hexToHsl(request.foreground).l \div Fx) )
    => /\ result.strategy = "lightness"
       /\ hexToHsl(result.adjusted).h = hexToHsl(request.foreground).h

\* C6: iterations never exceeds 40, is at most 20 while the lightness search
\* runs, and is the number of midpoints tested so far in both phases.
C6_IterationsBounded ==
  /\ iterations <= 40
  /\ (pc = "phase1" => iterations <= 20)
  /\ iterations = tested
  /\ (Returned => result.iterations <= 40 /\ result.iterations = tested)

C6_Witness ==
  /\ Returned
  /\ result.strategy = "fallback"
  /\ result.iterations >= 14
  /\ tested = result.iterations

\* C7 as stated: iterations = 0 exactly when the foreground already met the
\* target.
C7_ZeroIterationsIffAlreadyMeets ==
  Returned => (result.iterations = 0 <=> AlreadyMeets)

\* neither search tests a midpoint: the lightness interval is at most 0.5
\* wide and the saturation interval at most 1 wide
NoMidpoint(hsl, lighten) ==
  /\ (IF lighten THEN 100 * Fx - hsl.l ELSE hsl.l) <= Fx \div 2
  /\ hsl.s <= Fx

FreshLuminance(hex) == getRelativeLuminance(EmptyCache, hex).value

\* C7 amended: iterations = 0 when the foreground already met the target;
\* when it did not, iterations > 0 unless neither search has a midpoint to
\* test, in which case the fallback is returned with iterations = 0.
C7_ZeroIterationsIffNothingTested ==
  Returned =>
    IF AlreadyMeets THEN result.iterations = 0
    ELSE IF NoMidpoint(hexToHsl(request.foreground),
                       FreshLuminance(request.foreground)
                         < FreshLuminance(request.background))
    THEN result.iterations = 0 /\ result.strategy = "fallback"
    ELSE result.iterations > 0

C7_Witness ==
  /\ Returned
  /\ ~AlreadyMeets
  /\ result.iterations = 0
  /\ result.strategy = "fallback"

\* C8: the base returned by generateAccessibleVariations has a contrast of at
\* least 4.5 against the background.
C8_VariationsBaseMeetsAA ==
  (pc = "done" /\ request.op = "generateAccessibleVariations") =>
    RatioGE(FreshContrast(variations.base, request.background),
            WCAG_REQUIREMENTS.AA.normal)

C8_Witness ==
  /\ pc = "done"
  /\ request.op = "generateAccessibleVariations"
  /\ result.strategy = "fallback"
  /\ variations.base = WHITE
  /\ variations.text = BLACK

----------------------------------------------------------------------------
(* The contrast API called again and again on one process: the luminance   *)
(* cache lives as long as the process                                      *)

\* number of API calls made on the process
MaxCalls == 3

\* one colour written five ways, a colour sharing its first digits, white,
\* a string that is no colour, and a shorthand colour with a string that
\* is no colour but has the same upper case
CacheInputs ==
  { <<"#","a","b","c">>,
    <<"#","A","A","B","B","C","C">>,
    <<" ","#","a","a","b","b","c","c"," ">>,
    <<"a","a","b","b","c","c">>,
    <<"#","A","B","C">>,
    <<"#","a","a","b">>,
    <<"#","F","F","F","F","F","F">>,
    <<"#","1","2">>,
    <<"#","a","f","f">>,
    <<"#","a",FfLigature>>,
    <<"#","F","0","0">>,
    <<"#","F","F","0","0","0","0">>,
    <<"#","f","f","0","0","0","0">>,
    <<" "," ","#","F","F","0","0","0","0"," "," ">>,
    <<"#","a","a","b","b",FfLigature>> }

ContrastInputs ==
  { <<"#","a","b","c">>, <<"#","F","F","F","F","F","F">>, <<"#","1","2">> }

\* a call that runs all three phases, and two calls with one argument
\* that is no colour
CacheAdjustRequests ==
  [op : {"adjustColorForContrast"},
   foreground : {FgList[1], <<"#","1","2">>},
   background : {BgList[1], <<"#","1","2">>},
   targetLevel : {"AA"}, textSize : {"normal"}]
    \ [op : {"adjustColorForContrast"},
        foreground : {<<"#","1","2">>}, background : {<<"#","1","2">>},
        targetLevel : {"AA"}, textSize : {"normal"}]

\* no call is in progress
Idle == pc \in {"idle", "done", "threw"}

CallGetRelativeLuminance ==
  /\ Idle
  /\ calls < MaxCalls
  /\ \E hex \in CacheInputs :
     \E l \in {getRelativeLuminance(luminanceCache, hex)} :
       /\ luminanceCache' = l.cache
       /\ lookedUp' = l.looked
       /\ returned' = [api |-> "getRelativeLuminance", hex |-> hex,
                       background |-> << >>, ok |-> l.ok, value |-> l.value,
                       cached |-> CacheKey(hex) \in DOMAIN luminanceCache]
  /\ pc' = "idle"
  /\ calls' = calls + 1
  /\ UNCHANGED <<request, locals, result, variations>>

CallCalculateContrast ==
  /\ Idle
  /\ calls < MaxCalls
  /\ \E foreground \in ContrastInputs, background \in ContrastInputs :
     \E c \in {calculateContrast(luminanceCache, foreground, background)} :
       /\ luminanceCache' = c.cache
       /\ lookedUp' = c.looked
       /\ returned' = [api |-> "calculateContrast", hex |-> foreground,
                       background |-> background, ok |-> c.ok, value |-> c.value,
                       cached |-> CacheKey(foreground) \in DOMAIN luminanceCache]
  /\ pc' = "idle"
  /\ calls' = calls + 1
  /\ UNCHANGED <<request, locals, result, variations>>

CallClearLuminanceCache ==
  /\ Idle
  /\ calls < MaxCalls
  /\ luminanceCache' = clearLuminanceCache(luminanceCache)
  /\ lookedUp' = {}
  /\ returned' = [api |-> "clearLuminanceCache", hex |-> << >>,
                  background |-> << >>, ok |-> TRUE, value |-> 0,
                  cached |-> luminanceCache # EmptyCache]
  /\ pc' = "idle"
  /\ calls' = calls + 1
  /\ UNCHANGED <<request, locals, result, variations>>

\* the call is entered; AdjustEnter .. Fallback run it
CallAdjustColorForContrast ==
  /\ Idle
  /\ calls < MaxCalls
  /\ request' \in CacheAdjustRequests
  /\ pc' = "start"
  /\ fgHsl' = [h |-> 0, s |-> 0, l |-> 0]
  /\ shouldLighten' = FALSE
  /\ low' = 0
  /\ high' = 0
  /\ bestResult' = << >>
  /\ iterations' = 0
  /\ tested' = 0
  /\ result' = NoResult
  /\ lookedUp' = {}
  /\ returned' = NoReturn
  /\ calls' = calls + 1
  /\ UNCHANGED <<luminanceCache, variations>>

InitCache ==
  /\ luminanceCache = EmptyCache
  /\ request = NoRequest
  /\ pc = "idle"
  /\ InitLocals
  /\ result = NoResult
  /\ variations = NoVariations
  /\ returned = NoReturn
  /\ lookedUp = {}
  /\ calls = 0

NextCache ==
  \/ CallGetRelativeLuminance
  \/ CallCalculateContrast
  \/ CallClearLuminanceCache
  \/ CallAdjustColorForContrast
  \/ AdjustEnter
  \/ Phase1Step
  \/ Phase1Exit
  \/ Phase2Step
  \/ Phase2Exit
  \/ Fallback

SpecCache == InitCache /\ [][NextCache]_vars

----------------------------------------------------------------------------
(* Properties of the luminance cache, checked under SpecCache              *)

\* what getRelativeLuminance(hex) returns now: whether it returns, and the value
LuminanceNow(hex) ==
  The({<<l.ok, l.value>> : l \in {getRelativeLuminance(luminanceCache, hex)}})

\* what it returns on an empty cache
LuminanceFresh(hex) ==
  The({<<l.ok, l.value>> : l \in {getRelativeLuminance(EmptyCache, hex)}})

\* C9: whatever calls were made, getRelativeLuminance(x) returns what a fresh
\* computation on an empty cache returns, so the same value for every
\* spelling of one colour; and that is what the last call did return.
C9_LuminanceIndependentOfCache ==
  /\ \A x \in CacheInputs : LuminanceNow(x) = LuminanceFresh(x)
  /\ \A x, y \in CacheInputs :
       (ValidHex(x) /\ ValidHex(y) /\ hexToRgb(x) = hexToRgb(y))
         => LuminanceNow(x) = LuminanceNow(y)
  /\ returned.api = "getRelativeLuminance"
       => <<returned.ok, returned.value>> = LuminanceFresh(returned.hex)

ClearStep == returned'.api = "clearLuminanceCache" /\ calls' = calls + 1

\* C10: in every step, a key new to the cache is one whose lookup returned a
\* value in that step; an entry present stays, with its value, unless the
\* step is clearLuminanceCache; after clearLuminanceCache the cache is empty.
C10_CacheLifecycle ==
  [][ /\ (DOMAIN luminanceCache' \ DOMAIN luminanceCache) \subseteq lookedUp'
      /\ IF ClearStep
         THEN DOMAIN luminanceCache' = {}
         ELSE \A k \in DOMAIN luminanceCache :
                /\ k \in DOMAIN luminanceCache'
                /\ luminanceCache'[k] = luminanceCache[k] ]_vars

\* a reset that had entries to drop
C10_Witness ==
  /\ returned.api = "clearLuminanceCache"
  /\ returned.cached
  /\ DOMAIN luminanceCache = {}
  /\ calls >= 2

\* the step is a call of getRelativeLuminance that throws
FailedLuminanceCall ==
  /\ calls' = calls + 1
  /\ returned'.api = "getRelativeLuminance"
  /\ ~returned'.ok

\* the step is a call of calculateContrast that throws
FailedContrastCall ==
  /\ calls' = calls + 1
  /\ returned'.api = "calculateContrast"
  /\ ~returned'.ok

\* the step is adjustColorForContrast throwing in its first calculateContrast
FailedAdjustCall == pc = "start" /\ pc' = "threw"

CacheAfterLookup(hex) == getRelativeLuminance(luminanceCache, hex).cache

----------------------------------------------------------------------------
(* oklch.ts: interpolateOklch.  An OKLCH argument carries l in units of     *)
(* 1/LUnit, c in units of 1/CUnit and h in degrees; the factor t is a       *)
(* number of 1/TDen; the OKLCH returned carries each field in units TDen    *)
(* times finer than the argument's, so that every product with the factor   *)
(* is exact                                                                 *)

LUnit == 1000

CUnit == 100000

TDen == 4

\* color.c < 0.0001
AchromaticBelow == CUnit \div 10000

\* OklchSchema: l in [0,1], c >= 0, h in [0,360]
validateOklch(oklch) ==
  /\ oklch.l >= 0 /\ oklch.l <= LUnit
  /\ oklch.c >= 0
  /\ oklch.h >= 0 /\ oklch.h <= 360

\* InterpolationFactorSchema.safeParse(t).success
FactorInRange(t) == t >= 0 /\ t <= TDen

\* the factor left as it is when out of range
FactorUnclamped(t) == t

\* tResult.success ? t : Math.max(0, Math.min(1, t))
FactorOf(t) == IF FactorInRange(t) THEN t ELSE Max2(0, Min2(TDen, t))

\* a + (b - a) * factor, in units TDen times finer
Lerp(a, b, factor) == a * TDen + (b - a) * factor

\* if (color1.c < 0.0001) h1 = h2
EffectiveH1(color1, color2) ==
  IF color1.c < AchromaticBelow THEN color2.h ELSE color1.h

\* if (color2.c < 0.0001) h2 = h1
EffectiveH2(color2, h1) ==
  IF color2.c < AchromaticBelow THEN h1 ELSE color2.h

\* if (deltaH > 180) deltaH -= 360
DeltaAbove(deltaH) == IF deltaH > 180 THEN deltaH - 360 ELSE deltaH

\* if (deltaH < -180) deltaH += 360
DeltaBelow(deltaH) == IF deltaH < -180 THEN deltaH + 360 ELSE deltaH

\* the difference taken the long way round
NaiveDelta(deltaH) == deltaH

ShortestDelta(deltaH) == DeltaBelow(DeltaAbove(deltaH))

\* if (h < 0) h += 360, in units of 1/TDen degree
HueBelow(h) == IF h < 0 THEN h + 360 * TDen ELSE h

\* the same two wraps for a hue in units of 1/den degree
HueBelowOver(h, den) == IF h < 0 THEN h + 360 * den ELSE h

HueAboveOver(h, den) == IF h >= 360 * den THEN h - 360 * den ELSE h

\* if (h >= 360) h -= 360
HueAbove(h) == IF h >= 360 * TDen THEN h - 360 * TDen ELSE h

\* a full turn left in the hue
HueUnwrapped(h) == h

WrapHue(h) == HueAbove(HueBelow(h))

\* let h = h1 + deltaH * factor, and the two wraps
HueAt(h1, h2, factor) ==
  WrapHue(h1 * TDen + ShortestDelta(h2 - h1) * factor)

\* lines 408-429, after validation, with the factor and h1 computed
Interpolated(color1, color2, factor, h1) ==
  [l |-> Lerp(color1.l, color2.l, factor),
   c |-> Lerp(color1.c, color2.c, factor),
   h |-> HueAt(h1, EffectiveH2(color2, h1), factor)]

\* defined for validateOklch(color1) and validateOklch(color2)
interpolateOklch(color1, color2, t) ==
  Interpolated(color1, color2, FactorOf(t), EffectiveH1(color1, color2))

----------------------------------------------------------------------------
(* gradients: generateGradient and generateMultiStopGradient, with the     *)
(* default easing.  hexToOklch is tabulated for a few colours, l rounded    *)
(* to 1/LUnit, c to 1/CUnit and h to whole degrees.  A factor is a          *)
(* fraction num/den with den > 0, or NaN (0/0 when steps = 1); a colour     *)
(* handed to oklchToHex carries l, c and h over the factor's denominator.   *)
(* Of oklchToHex the model keeps the validation and, for the colour it      *)
(* returns, the OKLCH triple that determines it.                            *)

\* HexColorSchema: /^#?([A-Fa-f0-9]{6}|[A-Fa-f0-9]{3})$/, on the string as
\* given (no trim)
MatchesHexColorSchema(hex) ==
  \E body \in {IF Len(hex) >= 1 /\ hex[1] = "#" THEN Tail(hex) ELSE hex} :
    /\ Len(body) \in {3, 6}
    /\ \A i \in 1..Len(body) : IsHexDigit(body[i])

\* rgbToOklab and oklabToOklch on the colours used, rounded
OklchOfRgb(rgb) ==
  IF rgb = [r |-> 255, g |-> 0, b |-> 0] THEN [l |-> 628, c |-> 25768, h |-> 29]
  ELSE IF rgb = [r |-> 0, g |-> 255, b |-> 0] THEN [l |-> 866, c |-> 29483, h |-> 142]
  ELSE IF rgb = [r |-> 0, g |-> 0, b |-> 255] THEN [l |-> 452, c |-> 31321, h |-> 264]
  ELSE IF rgb = [r |-> 255, g |-> 255, b |-> 255] THEN [l |-> 1000, c |-> 0, h |-> 0]
  ELSE [l |-> 0, c |-> 0, h |-> 0]

\* hexToOklch: [ok, value]; ok is FALSE when validateHexColor throws
hexToOklch(hex) ==
  IF MatchesHexColorSchema(hex)
  THEN [ok |-> TRUE, value |-> OklchOfRgb(hexToRgb(hex))]
  ELSE [ok |-> FALSE, value |-> "Invalid hex color"]

NaN == [nan |-> TRUE, num |-> 0, den |-> 1]

\* i / (steps - 1), for steps >= 1
RawT(i, steps) ==
  IF steps = 1 THEN NaN ELSE [nan |-> FALSE, num |-> i, den |-> steps - 1]

HueDirections == {"shorter", "longer", "increasing", "decreasing"}

\* if (delta > 0 && delta < 180) delta -= 360
LongerAbove(delta) == IF delta > 0 /\ delta < 180 THEN delta - 360 ELSE delta

\* if (delta < 0 && delta > -180) delta += 360
LongerBelow(delta) == IF delta < 0 /\ delta > -180 THEN delta + 360 ELSE delta

\* the switch of interpolateHue
DirectedDelta(delta, direction) ==
  IF direction = "shorter" THEN DeltaBelow(DeltaAbove(delta))
  ELSE IF direction = "longer" THEN LongerBelow(LongerAbove(delta))
  ELSE IF direction = "increasing"
  THEN (IF delta < 0 THEN delta + 360 ELSE delta)
  ELSE (IF delta > 0 THEN delta - 360 ELSE delta)

\* the two wraps of interpolateHue, for a hue over den
WrapHueOver(h, den) ==
  HueAboveOver(HueBelowOver(h, den), den)

\* interpolateHue for a factor num/den: the hue over den
interpolateHue(h1, h2, t, direction) ==
  IF h1 = 0 /\ h2 = 0 THEN 0
  ELSE WrapHueOver(h1 * t.den + DirectedDelta(h2 - h1, direction) * t.num,
                   t.den)

\* the object `interpolated`: NaN in every field for a NaN factor, except
\* the hue of two colours of hue 0
InterpolatedAt(start, end, t, direction) ==
  [nan |-> t.nan,
   l |-> start.l * t.den + (end.l - start.l) * t.num,
   c |-> start.c * t.den + (end.c - start.c) * t.num,
   h |-> interpolateHue(start.h, end.h, t, direction),
   den |-> t.den]

\* validateOklch in oklchToHex, for a colour over den; z.number() rejects NaN
ValidInterpolated(lch) ==
  /\ ~lch.nan
  /\ lch.l >= 0 /\ lch.l <= LUnit * lch.den
  /\ lch.c >= 0
  /\ lch.h >= 0 /\ lch.h <= 360 * lch.den

RECURSIVE GradientLoop(_, _, _, _, _, _)
\* the loop of generateGradient from index i on
GradientLoop(start, end, steps, direction, i, colors) ==
  IF i >= steps THEN [ok |-> TRUE, value |-> colors]
  ELSE IF ~ValidInterpolated(InterpolatedAt(start, end, RawT(i, steps), direction))
  THEN [ok |-> FALSE, value |-> "Invalid OKLCH input"]
  ELSE GradientLoop(start, end, steps, direction, i + 1,
                    Append(colors,
                           InterpolatedAt(start, end, RawT(i, steps), direction)))

\* generateGradient: [ok, value], value the list of colours or the error
generateGradient(startHex, endHex, steps, direction) ==
  IF ~hexToOklch(startHex).ok THEN hexToOklch(startHex)
  ELSE IF ~hexToOklch(endHex).ok THEN hexToOklch(endHex)
  ELSE GradientLoop(hexToOklch(startHex).value, hexToOklch(endHex).value,
                    steps, direction, 0, << >>)

\* a stop is [color, position], its position a number of 1/PosDen
PosDen == 2

RECURSIVE InsertStop(_, _)
\* stop put after every stop of the sorted list that is not after it
InsertStop(sorted, stop) ==
  IF sorted = << >> THEN <<stop>>
  ELSE IF sorted[Len(sorted)].position <= stop.position
  THEN Append(sorted, stop)
  ELSE Append(InsertStop(SubSeq(sorted, 1, Len(sorted) - 1), stop),
              sorted[Len(sorted)])

RECURSIVE SortedPrefix(_, _)
\* [...stops].sort((a, b) => a.position - b.position), a stable sort, of the
\* first n stops
SortedPrefix(stops, n) ==
  IF n = 0 THEN << >> ELSE InsertStop(SortedPrefix(stops, n - 1), stops[n])

\* position >= stop.position and position <= stop.position for the position
\* t; every comparison with NaN is false
AtOrAfter(t, stop) == ~t.nan /\ t.num * PosDen >= stop.position * t.den

AtOrBefore(t, stop) == ~t.nan /\ t.num * PosDen <= stop.position * t.den

RECURSIVE SegmentFrom(_, _, _)
\* the inner loop from index j on: the first pair of neighbours around the
\* position, or the first and the last stop
SegmentFrom(sortedStops, t, j) ==
  IF j > Len(sortedStops) - 1
  THEN [startStop |-> sortedStops[1], endStop |-> sortedStops[Len(sortedStops)]]
  ELSE IF AtOrAfter(t, sortedStops[j]) /\ AtOrBefore(t, sortedStops[j + 1])
  THEN [startStop |-> sortedStops[j], endStop |-> sortedStops[j + 1]]
  ELSE SegmentFrom(sortedStops, t, j + 1)

\* segmentLength === 0 ? 0 : (position - startStop.position) / segmentLength
LocalT(segment, t) ==
  IF segment.endStop.position = segment.startStop.position
  THEN [nan |-> FALSE, num |-> 0, den |-> 1]
  ELSE IF t.nan THEN NaN
  ELSE [nan |-> FALSE,
        num |-> t.num * PosDen - segment.startStop.position * t.den,
        den |-> (segment.endStop.position - segment.startStop.position) * t.den]

\* one pass of the outer loop for the segment found: the colour pushed, or
\* the error of hexToOklch or oklchToHex
StopColour(segment, localT) ==
  IF ~hexToOklch(segment.startStop.color).ok
  THEN hexToOklch(segment.startStop.color)
  ELSE IF ~hexToOklch(segment.endStop.color).ok
  THEN hexToOklch(segment.endStop.color)
  ELSE IF ~ValidInterpolated(
             InterpolatedAt(hexToOklch(segment.startStop.color).value,
                            hexToOklch(segment.endStop.color).value,
                            localT, "shorter"))
  THEN [ok |-> FALSE, value |-> "Invalid OKLCH input"]
  ELSE [ok |-> TRUE,
        value |-> InterpolatedAt(hexToOklch(segment.startStop.color).value,
                                 hexToOklch(segment.endStop.color).value,
                                 localT, "shorter")]

\* the colour of index i of steps
StopColourAt(sortedStops, steps, i, segment) ==
  StopColour(segment, LocalT(segment, RawT(i, steps)))

RECURSIVE MultiStopLoop(_, _, _, _)
\* the outer loop from index i on
MultiStopLoop(sortedStops, steps, i, colors) ==
  IF i >= steps THEN [ok |-> TRUE, value |-> colors]
  ELSE IF ~StopColourAt(sortedStops, steps, i,
                        SegmentFrom(sortedStops, RawT(i, steps), 1)).ok
  THEN StopColourAt(sortedStops, steps, i,
                    SegmentFrom(sortedStops, RawT(i, steps), 1))
  ELSE MultiStopLoop(sortedStops, steps, i + 1,
         Append(colors,
                StopColourAt(sortedStops, steps, i,
                             SegmentFrom(sortedStops, RawT(i, steps), 1)).value))

\* generateMultiStopGradient with the default configuration
generateMultiStopGradient(stops, steps) ==
  IF Len(stops) < 2
  THEN [ok |-> FALSE, value |-> "At least 2 stops required for gradient"]
  ELSE MultiStopLoop(SortedPrefix(stops, Len(stops)), steps, 0, << >>)
----------------------------------------------------------------------------
(* The conversions and classifications as functions: one call on given     *)
(* arguments, its outcome in `returned`                                    *)

\* length of the longest run of characters drawn as the body of a hex string
MaxHexLen == 7

HexPattern == <<"0","a","F","9","c","E","1","b">>

\* n hex digits
HexBody(n) == [i \in 1..n |-> HexPattern[((i - 1) % Len(HexPattern)) + 1]]

\* characters that are no hex digits
OtherChars == {"g", "G", " ", "#", FfLigature}

\* n hex digits, and n characters of which one is no hex digit
HexBodies ==
  {HexBody(n) : n \in 0..MaxHexLen}
    \cup {[HexBody(n) EXCEPT ![k] = c] : n \in 1..MaxHexLen, k \in 1..MaxHexLen,
                                         c \in OtherChars}

HexPrefixes == { << >>, <<"#">>, <<" ","#">>, <<"#","#">> }

HexSuffixes == { << >>, <<" ">> }

HexStrings == {p \o b \o x : p \in HexPrefixes, b \in HexBodies, x \in HexSuffixes}

HexToRgbRequests == [op : {"hexToRgb"}, hex : HexStrings]

\* valid colours, several of them written in more than one way
ContrastColours == FgInputs \cup BgInputs

ContrastRequests ==
  [op : {"calculateContrast"}, foreground : ContrastColours,
   background : ContrastColours]

\* ratios in hundredths: at, just below and just above each threshold, and
\* the ends of the range of a contrast ratio
RatioInputs ==
  {<<n, 100>> : n \in {100, 299, 300, 301, 449, 450, 451, 699, 700, 701, 2100}}

MeetsWCAGRequests ==
  [op : {"meetsWCAG"}, ratio : RatioInputs, level : WCAGLevel, size : TextSize]

ComplianceRequests ==
  [op : {"getWCAGCompliance"}, ratio : RatioInputs, size : TextSize]

\* channel values: the ends, their neighbours and the middle of 0..255
ChannelInputs == {0, 1, 2, 3, 127, 128, 254, 255}

RgbInputs == [r : ChannelInputs, g : ChannelInputs, b : ChannelInputs]

RgbToHslRequests == [op : {"rgbToHsl"}, rgb : RgbInputs]

HexToHslRequests ==
  [op : {"hexToHsl"},
   hex : ContrastColours \cup {<<"#","F","F","0","0","0","1">>, <<"#","1","2">>}]

\* hues inside one turn, at one turn, up to the last hue that one subtraction
\* of a turn brings back (600 = 360 + 240), and beyond it
HueInputs ==
  {0, 1, 59, 60, 120, 121, 240, 241, 280, 359, 360, 361, 480, 600, 601, 720,
   721, 1000}

\* saturations and lightnesses for which no channel falls on a rounding tie
HslInputs ==
  [h : HueInputs, s : {Fx * n : n \in {0, 50, 100}},
   l : {Fx * n : n \in {0, 10, 50, 90, 100}}]

HslToRgbRequests == [op : {"hslToRgb"}, hsl : HslInputs]

\* valid colours: lightness at both ends and inside, chroma at zero, on
\* both sides of the achromatic threshold and well above, hues at both ends
\* of [0,360] and on both sides of half a turn from one another
ValidOklchInputs ==
  [l : {0, 400, LUnit}, c : {0, AchromaticBelow - 1, AchromaticBelow, 20000},
   h : {0, 10, 170, 180, 190, 350, 360}]

\* colours with one field outside its range
InvalidOklchInputs ==
  {[l |-> -1, c |-> 20000, h |-> 10], [l |-> LUnit + 1, c |-> 20000, h |-> 10],
   [l |-> 400, c |-> -1, h |-> 10], [l |-> 400, c |-> 20000, h |-> -1],
   [l |-> 400, c |-> 20000, h |-> 361]}

OklchInputs == ValidOklchInputs \cup InvalidOklchInputs

\* factors 0, 1/4, 1/2, 3/4 and 1, and factors outside [0,1]
FactorInputs == {-2, -1, 0, 1, 2, 3, 4, 5, 8}

InterpolateRequests ==
  [op : {"interpolateOklch"}, color1 : OklchInputs, color2 : OklchInputs,
   t : FactorInputs]

GradientColours ==
  {<<"#","f","f","0","0","0","0">>, <<"#","0","0","0","0","f","f">>,
   <<"#","F","F","F">>, <<"0","0","0","0","0","0">>,
   <<"i","n","v","a","l","i","d">>}

\* numbers of steps below 2, at 2 and above
StepsInputs == {-2, -1, 0, 1, 2, 3, 5}

GradientRequests ==
  [op : {"generateGradient"}, startHex : GradientColours,
   endHex : GradientColours, steps : StepsInputs, hueDirection : HueDirections]

StopColours ==
  {<<"#","f","f","0","0","0","0">>, <<"#","0","0","f","f","0","0">>}

\* positions -0.5, 0, 0.5, 1 and 1.5
PositionInputs == {-1, 0, 1, 2, 3}

ValidColourStops == [color : StopColours, position : PositionInputs]

StopInputs ==
  ValidColourStops
    \cup [color : {<<"i","n","v","a","l","i","d">>}, position : {0, 2}]

\* no stop, one stop, two stops, and three stops of valid colours
StopLists ==
  {<< >>} \cup {<<a>> : a \in StopInputs}
    \cup {<<a, b>> : a \in StopInputs, b \in StopInputs}
    \cup {<<a, b, c>> : a \in ValidColourStops, b \in ValidColourStops,
                        c \in ValidColourStops}

MultiStopRequests ==
  [op : {"generateMultiStopGradient"}, stops : StopLists, steps : StepsInputs]

ConvRequests ==
  HexToRgbRequests \cup ContrastRequests \cup MeetsWCAGRequests
    \cup ComplianceRequests \cup RgbToHslRequests \cup HexToHslRequests
    \cup HslToRgbRequests \cup InterpolateRequests \cup GradientRequests
    \cup MultiStopRequests

\* lines 66-83: the RGB value, or the error thrown
ConvHexToRgb ==
  /\ pc = "call"
  /\ request.op = "hexToRgb"
  /\ returned' = IF ValidHex(request.hex)
                 THEN [api |-> "hexToRgb", ok |-> TRUE,
                       value |-> hexToRgb(request.hex)]
                 ELSE [api |-> "hexToRgb", ok |-> FALSE,
                       value |-> "Invalid hex color"]
  /\ pc' = "returned"
  /\ UNCHANGED <<luminanceCache, request, locals, result, variations, lookedUp,
                 calls>>

\* lines 332-343: the ratio, or the error thrown by a lookup
ConvCalculateContrast ==
  /\ pc = "call"
  /\ request.op = "calculateContrast"
  /\ \E c \in {calculateContrast(luminanceCache, request.foreground,
                                  request.background)} :
       /\ luminanceCache' = c.cache
       /\ lookedUp' = c.looked
       /\ returned' = [api |-> "calculateContrast", ok |-> c.ok,
                       value |-> c.value]
  /\ pc' = "returned"
  /\ UNCHANGED <<request, locals, result, variations, calls>>

\* lines 386-392
ConvMeetsWCAG ==
  /\ pc = "call"
  /\ request.op = "meetsWCAG"
  /\ returned' = [api |-> "meetsWCAG", ok |-> TRUE,
                  value |-> meetsWCAG(request.ratio, request.level, request.size)]
  /\ pc' = "returned"
  /\ UNCHANGED <<luminanceCache, request, locals, result, variations, lookedUp,
                 calls>>

\* lines 423-440
ConvGetWCAGCompliance ==
  /\ pc = "call"
  /\ request.op = "getWCAGCompliance"
  /\ returned' = [api |-> "getWCAGCompliance", ok |-> TRUE,
                  value |-> getWCAGCompliance(request.ratio, request.size)]
  /\ pc' = "returned"
  /\ UNCHANGED <<luminanceCache, request, locals, result, variations, lookedUp,
                 calls>>

\* lines 123-157
ConvRgbToHsl ==
  /\ pc = "call"
  /\ request.op = "rgbToHsl"
  /\ returned' = [api |-> "rgbToHsl", ok |-> TRUE,
                  value |-> rgbToHsl(request.rgb)]
  /\ pc' = "returned"
  /\ UNCHANGED <<luminanceCache, request, locals, result, variations, lookedUp,
                 calls>>

\* lines 220-222: the error of hexToRgb, or the HSL of its RGB
ConvHexToHsl ==
  /\ pc = "call"
  /\ request.op = "hexToHsl"
  /\ returned' = IF ValidHex(request.hex)
                 THEN [api |-> "hexToHsl", ok |-> TRUE,
                       value |-> hexToHsl(request.hex)]
                 ELSE [api |-> "hexToHsl", ok |-> FALSE,
                       value |-> "Invalid hex color"]
  /\ pc' = "returned"
  /\ UNCHANGED <<luminanceCache, request, locals, result, variations, lookedUp,
                 calls>>

\* lines 171-206
ConvHslToRgb ==
  /\ pc = "call"
  /\ request.op = "hslToRgb"
  /\ returned' = [api |-> "hslToRgb", ok |-> TRUE,
                  value |-> hslToRgb(request.hsl)]
  /\ pc' = "returned"
  /\ UNCHANGED <<luminanceCache, request, locals, result, variations, lookedUp,
                 calls>>

\* lines 395-430: the error of the first argument that fails validation,
\* or the interpolated colour
ConvInterpolateOklch ==
  /\ pc = "call"
  /\ request.op = "interpolateOklch"
  /\ returned' =
       IF ~validateOklch(request.color1)
       THEN [api |-> "interpolateOklch", ok |-> FALSE, value |-> "Invalid color1"]
       ELSE IF ~validateOklch(request.color2)
       THEN [api |-> "interpolateOklch", ok |-> FALSE, value |-> "Invalid color2"]
       ELSE [api |-> "interpolateOklch", ok |-> TRUE,
             value |-> interpolateOklch(request.color1, request.color2,
                                        request.t)]
  /\ pc' = "returned"
  /\ UNCHANGED <<luminanceCache, request, locals, result, variations, lookedUp,
                 calls>>

\* lines 307-333
ConvGenerateGradient ==
  /\ pc = "call"
  /\ request.op = "generateGradient"
  /\ \E outcome \in {generateGradient(request.startHex, request.endHex,
                                      request.steps, request.hueDirection)} :
       returned' = [api |-> "generateGradient", ok |-> outcome.ok,
                    value |-> outcome.value]
  /\ pc' = "returned"
  /\ UNCHANGED <<luminanceCache, request, locals, result, variations, lookedUp,
                 calls>>

\* lines 352-421
ConvGenerateMultiStopGradient ==
  /\ pc = "call"
  /\ request.op = "generateMultiStopGradient"
  /\ \E outcome \in {generateMultiStopGradient(request.stops, request.steps)} :
       returned' = [api |-> "generateMultiStopGradient", ok |-> outcome.ok,
                    value |-> outcome.value]
  /\ pc' = "returned"
  /\ UNCHANGED <<luminanceCache, request, locals, result, variations, lookedUp,
                 calls>>

InitConv ==
  /\ luminanceCache = EmptyCache
  /\ request \in ConvRequests
  /\ pc = "call"
  /\ InitLocals
  /\ result = NoResult
  /\ variations = NoVariations
  /\ returned = NoReturn
  /\ lookedUp = {}
  /\ calls = 1

NextConv ==
  \/ ConvHexToRgb
  \/ ConvCalculateContrast
  \/ ConvMeetsWCAG
  \/ ConvGetWCAGCompliance
  \/ ConvRgbToHsl
  \/ ConvHexToHsl
  \/ ConvHslToRgb
  \/ ConvInterpolateOklch
  \/ ConvGenerateGradient
  \/ ConvGenerateMultiStopGradient

SpecConv == InitConv /\ [][NextConv]_vars

----------------------------------------------------------------------------
(* Properties of the conversions, checked under SpecConv                   *)

\* the call of op has returned or thrown
ConvDone(op) == pc = "returned" /\ request.op = op

\* hex without surrounding whitespace and without one leading #
StripHash(t) == IF Len(t) >= 1 /\ t[1] = "#" THEN Tail(t) ELSE t

HexDigitsOf(hex) == StripHash(trim(hex))

AllHexDigits(b) == \A i \in 1..Len(b) : IsHexDigit(b[i])

Doubled(b) == <<"#", b[1], b[1], b[2], b[2], b[3], b[3]>>

\* C12: hexToRgb succeeds exactly when its input, trimmed and without one
\* optional leading #, is 3 or 6 hex digits; it fails with "Invalid hex
\* color" otherwise; a 3-digit form gives the RGB of its doubled form.
C12_HexToRgbAcceptsExactlyHexDigits ==
  ConvDone("hexToRgb") =>
    /\ returned.ok <=> ( /\ Len(HexDigitsOf(request.hex)) \in {3, 6}
                         /\ AllHexDigits(HexDigitsOf(request.hex)) )
    /\ ~returned.ok => returned.value = "Invalid hex color"
    /\ (returned.ok /\ Len(HexDigitsOf(request.hex)) = 3)
         => returned.value = hexToRgb(Doubled(HexDigitsOf(request.hex)))

\* C12 for the inputs without the character U+FB00
C12_HoldsWithoutLigature ==
  (\A i \in 1..Len(request.hex) : request.hex[i] # FfLigature)
    => C12_HexToRgbAcceptsExactlyHexDigits

\* C13: for valid colours a and b, calculateContrast(a, b) equals
\* calculateContrast(b, a), lies in [1, 21], and is exactly 1 when a and b
\* denote the same colour, however they are written.
C13_ContrastSymmetricAndBounded ==
  ( /\ ConvDone("calculateContrast")
    /\ ValidHex(request.foreground) /\ ValidHex(request.background) )
    => /\ returned.ok
       /\ returned.value = FreshContrast(request.background, request.foreground)
       /\ RatioGE(returned.value, <<1, 1>>)
       /\ RatioGE(<<21, 1>>, returned.value)
       /\ hexToRgb(request.foreground) = hexToRgb(request.background)
            => returned.value[1] = returned.value[2]

\* one colour written in two ways
C13_Witness ==
  /\ ConvDone("calculateContrast")
  /\ returned.ok
  /\ request.foreground # request.background
  /\ toUpperCase(request.foreground) # toUpperCase(request.background)
  /\ hexToRgb(request.foreground) = hexToRgb(request.background)
  /\ returned.value[1] = returned.value[2]

\* the table of the claim: AA normal 4.5, AA large 3.0, AAA normal 7.0,
\* AAA large 4.5, in hundredths
ThresholdHundredths(level, size) ==
  IF level = "AA" THEN (IF size = "normal" THEN 450 ELSE 300)
  ELSE (IF size = "normal" THEN 700 ELSE 450)

\* ratio >= threshold, for a ratio in hundredths
AtLeast(ratio, level, size) == ratio[1] >= ThresholdHundredths(level, size)

\* C14: meetsWCAG(ratio, level, size) is true exactly when ratio >= the
\* threshold of the table; getWCAGCompliance(ratio, size) returns the ratio,
\* AA and AAA as those comparisons, and level "AAA" if AAA passes, else "AA"
\* if AA passes, else "fail"; AAA never passes without AA.
C14_WCAGClassification ==
  /\ ConvDone("meetsWCAG") =>
       (returned.value <=> AtLeast(request.ratio, request.level, request.size))
  /\ ConvDone("getWCAGCompliance") =>
       /\ returned.value.ratio = request.ratio
       /\ returned.value.AA <=> AtLeast(request.ratio, "AA", request.size)
       /\ returned.value.AAA <=> AtLeast(request.ratio, "AAA", request.size)
       /\ returned.value.level =
            (IF returned.value.AAA THEN "AAA"
             ELSE IF returned.value.AA THEN "AA" ELSE "fail")
       /\ returned.value.AAA => returned.value.AA

\* a ratio exactly at the AA threshold and below the AAA threshold
C14_Witness ==
  /\ ConvDone("getWCAGCompliance")
  /\ request.ratio = <<450, 100>>
  /\ request.size = "normal"
  /\ returned.value.AA
  /\ ~returned.value.AAA
  /\ returned.value.level = "AA"

\* an HSL returned by rgbToHsl or hexToHsl
HslReturned ==
  /\ pc = "returned"
  /\ request.op \in {"rgbToHsl", "hexToHsl"}
  /\ returned.ok

\* s and l are whole percents in [0,100]
PercentsInRange(hsl) ==
  /\ hsl.s \in {Fx * n : n \in 0..100}
  /\ hsl.l \in {Fx * n : n \in 0..100}

\* C15: for every RGB triple with integer channels in [0,255], rgbToHsl (and
\* hexToHsl for every valid hex) returns integers with h in [0,360), never
\* 360, and s and l in [0,100].
C15_HslInRange ==
  HslReturned =>
    /\ returned.value.h \in 0..359
    /\ PercentsInRange(returned.value)

\* what does hold: the same ranges with 360 among the hues
C15_HslInRangeWith360 ==
  HslReturned =>
    /\ returned.value.h \in 0..360
    /\ PercentsInRange(returned.value)

\* the same colour with its hue reduced modulo 360
HueReduced(hsl) == [hsl EXCEPT !.h = hsl.h % 360]

\* C16: hslToRgb treats hue modulo 360: for every hue h >= 360, with s and l
\* in [0,100], hslToRgb({h,s,l}) equals hslToRgb({h: h mod 360, s, l}); in
\* particular h = 360 gives the same RGB as h = 0.
C16_HueModulo360 ==
  (ConvDone("hslToRgb") /\ request.hsl.h >= 360) =>
    returned.value = hslToRgb(HueReduced(request.hsl))

\* what does hold on these inputs: the equality for hues of 360 up to 600
C16_HueModulo360UpTo600 ==
  (ConvDone("hslToRgb") /\ request.hsl.h \in 360..600) =>
    returned.value = hslToRgb(HueReduced(request.hsl))

\* interpolateOklch has returned a colour
Interpolation == ConvDone("interpolateOklch") /\ returned.ok

Chromatic(oklch) == oklch.c >= AchromaticBelow

\* a and b are the same angle, in units of 1/TDen degree
SameAngle(a, b) == (a - b) % (360 * TDen) = 0

\* C17: for valid chromatic colours with hues h1, h2 and t in [0,1], the hue
\* returned by interpolateOklch lies in [0,360) and is h1 displaced by t times
\* the signed shortest angular difference from h1 to h2 (of magnitude at most
\* 180): 350 -> 10 at t = 0.5 gives a hue at 0/360.
C17_HueAlongShortestArc ==
  (/\ Interpolation
   /\ Chromatic(request.color1) /\ Chromatic(request.color2)
   /\ request.t \in 0..TDen) =>
    /\ returned.value.h >= 0 /\ returned.value.h < 360 * TDen
    /\ \E d \in -180..180 :
         /\ (d - (request.color2.h - request.color1.h)) % 360 = 0
         /\ SameAngle(returned.value.h,
                      request.color1.h * TDen + request.t * d)

\* 350 -> 10 at t = 1/2: the hue returned is 0
C17_Witness ==
  /\ Interpolation
  /\ Chromatic(request.color1) /\ Chromatic(request.color2)
  /\ request.color1.h = 350
  /\ request.color2.h = 10
  /\ 2 * request.t = TDen
  /\ returned.value.h = 0

\* an argument in the units of a colour returned
Returnable(oklch) ==
  [l |-> oklch.l * TDen, c |-> oklch.c * TDen, h |-> oklch.h * TDen]

\* C18: for all valid OKLCH colours c1 and c2, interpolateOklch(c1, c2, 0)
\* returns c1 and interpolateOklch(c1, c2, 1) returns c2, in all three fields
\* l, c and h.
C18_EndpointsReturned ==
  /\ (Interpolation /\ request.t = 0) =>
       returned.value = Returnable(request.color1)
  /\ (Interpolation /\ request.t = TDen) =>
       returned.value = Returnable(request.color2)

\* the hue an endpoint comes back with: its own if it is chromatic, the
\* other colour's if it is achromatic, and 0 in place of 360
EndpointHue(own, other) ==
  (IF Chromatic(own) \/ ~Chromatic(other) THEN own.h ELSE other.h) % 360

\* C18, amended: at t = 0 the result has the l and c of c1 and at t = 1 those
\* of c2; its hue is that of the same colour, with 0 in place of 360, when
\* that colour is chromatic.  An achromatic c1 (c < 0.0001) comes back at
\* t = 0 with the hue of c2; an achromatic c2 comes back at t = 1 with the
\* hue of c1 when c1 is chromatic and with its own otherwise.
C18_EndpointsUpToHue ==
  /\ (Interpolation /\ request.t = 0) =>
       /\ returned.value.l = request.color1.l * TDen
       /\ returned.value.c = request.color1.c * TDen
       /\ returned.value.h
            = TDen * (IF Chromatic(request.color1)
                      THEN request.color1.h % 360
                      ELSE request.color2.h % 360)
  /\ (Interpolation /\ request.t = TDen) =>
       /\ returned.value.l = request.color2.l * TDen
       /\ returned.value.c = request.color2.c * TDen
       /\ returned.value.h
            = TDen * EndpointHue(request.color2, request.color1)

\* t = 0 with an achromatic first colour: the hue returned is the second
\* colour's, not the first's
C18_Witness ==
  /\ Interpolation
  /\ request.t = 0
  /\ ~Chromatic(request.color1)
  /\ Chromatic(request.color2)
  /\ request.color1.h = 10
  /\ request.color2.h = 190
  /\ returned.value.l = request.color1.l * TDen
  /\ returned.value.h = 190 * TDen

\* both colours pass validation
BothValid == validateOklch(request.color1) /\ validateOklch(request.color2)

\* C19: a numeric t outside [0,1] never causes an error and is treated as the
\* nearest bound (t < 0 behaves as 0, t > 1 as 1), whereas a colour argument
\* with l outside [0,1], c < 0 or h outside [0,360] makes the call fail.
C19_FactorClampedColoursValidated ==
  ConvDone("interpolateOklch") =>
    /\ returned.ok <=> BothValid
    /\ (BothValid /\ request.t < 0) =>
         returned.value = interpolateOklch(request.color1, request.color2, 0)
    /\ (BothValid /\ request.t > TDen) =>
         returned.value = interpolateOklch(request.color1, request.color2, TDen)

\* t = 2 between colours that differ in every field: the second colour
\* comes back
C19_Witness ==
  /\ Interpolation
  /\ request.t = 2 * TDen
  /\ request.color1 = [l |-> 0, c |-> 20000, h |-> 10]
  /\ request.color2 = [l |-> 400, c |-> AchromaticBelow, h |-> 170]
  /\ returned.value = Returnable(request.color2)

\* a colour out of range fails the call whatever t is
C19_WitnessInvalid ==
  /\ ConvDone("interpolateOklch")
  /\ request.color2.h = 361
  /\ request.t = 2
  /\ ~returned.ok

\* C20: in every branch of adjustColorForContrast (shortcut, lightness,
\* chroma, fallback) result.original is the foreground argument exactly as it
\* was passed, not its normalised form.
C20_OriginalIsArgument ==
  Returned => result.original = request.foreground

\* "#F00" adjusted by the lightness search comes back as "#F00" in original
C20_Witness ==
  /\ Returned
  /\ request.foreground = <<"#", "F", "0", "0">>
  /\ result.iterations > 0
  /\ result.strategy = "lightness"
  /\ result.original = <<"#", "F", "0", "0">>
  /\ result.adjusted # result.original

\* a foreground not in normal form answered by the fallback
C20_WitnessFallback ==
  /\ Returned
  /\ result.strategy = "fallback"
  /\ request.foreground # normalizeHex(request.foreground)
  /\ result.original = request.foreground

\* '#' followed by exactly six hexadecimal digits
IsCanonicalHex(hex) ==
  /\ Len(hex) = 7
  /\ hex[1] = "#"
  /\ \A i \in 2..7 : IsHexDigit(hex[i])

GradientDone == ConvDone("generateGradient")

\* C22: generateGradient throws an error for every steps value less than 2
\* (including 1, 0 and negative values) instead of returning a list of
\* colours.
C22_GradientThrowsBelowTwoSteps ==
  (GradientDone /\ request.steps < 2) => ~returned.ok

\* what does hold: one step throws, two or more steps between valid colours
\* return that many colours
C22_GradientOneStepThrows ==
  GradientDone =>
    /\ request.steps = 1 => ~returned.ok
    /\ (/\ request.steps >= 2
        /\ MatchesHexColorSchema(request.startHex)
        /\ MatchesHexColorSchema(request.endHex)) =>
         returned.ok /\ Len(returned.value) = request.steps

MultiStopDone == ConvDone("generateMultiStopGradient")

\* some stop has a position outside [0,1]
SomePositionOutside(stops) ==
  \E i \in 1..Len(stops) : stops[i].position < 0 \/ stops[i].position > PosDen

\* C23: generateMultiStopGradient throws an error whenever any stop has a
\* position outside [0,1] (e.g. -0.5), as it does when fewer than 2 stops are
\* given.
C23_MultiStopThrowsOnBadPosition ==
  MultiStopDone =>
    /\ SomePositionOutside(request.stops) => ~returned.ok
    /\ Len(request.stops) < 2 => ~returned.ok

\* what does hold: fewer than 2 stops throw
C23_FewStopsThrow ==
  (MultiStopDone /\ Len(request.stops) < 2) => ~returned.ok

\* the call of the test "throws on invalid position" returns five colours
C23_TestInputReturns ==
  /\ MultiStopDone
  /\ request.stops
       = <<[color |-> <<"#","f","f","0","0","0","0">>, position |-> -1],
           [color |-> <<"#","0","0","f","f","0","0">>, position |-> PosDen]>>
  /\ request.steps = 5
  /\ returned.ok
  /\ Len(returned.value) = 5

\* the midpoint the next iteration tests
NextMid == (low + high) \div 2

\* the colours tested at that midpoint by the lightness and by the saturation
\* search, from the foreground's HSL
LightnessCandidate(mid) ==
  hslToHex([hexToHsl(request.foreground) EXCEPT !.l = mid])

SaturationCandidate(mid, lightness) ==
  hslToHex([h |-> hexToHsl(request.foreground).h, s |-> mid, l |-> lightness])

\* the best result after a midpoint has been tested: the midpoint if its
\* colour meets the target, the previous best otherwise
BestAfter(candidate) ==
  IF Meets(candidate)
  THEN <<[l |-> NextMid, ratio |-> FreshContrast(candidate, request.background)]>>
  ELSE bestResult

\* lightness pinned at 98 when the foreground is darker than the background,
\* at 2 otherwise
PinnedLightness ==
  IF FreshLuminance(request.foreground) < FreshLuminance(request.background)
  THEN 98 * Fx ELSE 2 * Fx

\* one step of a call, from the phase it is in
PhaseStep ==
  /\ (pc = "start" /\ pc' = "phase1") => bestResult' = << >>
  /\ (pc = "phase1" /\ pc' = "phase1") =>
       bestResult' = BestAfter(LightnessCandidate(NextMid))
  /\ (pc = "phase2" /\ pc' = "phase2") =>
       bestResult' = BestAfter(SaturationCandidate(NextMid, PinnedLightness))
  /\ pc' = "phase1" => pc \in {"start", "phase1"}
  /\ pc' = "phase2" => pc \in {"phase1", "phase2"} /\ bestResult = << >>
  /\ pc' = "phase3" => pc = "phase2" /\ bestResult = << >>
  /\ (~Returned /\ Returned') =>
       /\ result'.strategy = "lightness" <=> pc \in {"start", "phase1"}
       /\ result'.strategy = "chroma" <=> pc = "phase2"
       /\ result'.strategy = "fallback" <=> pc = "phase3"
       /\ pc = "start" => result'.iterations = 0
       /\ pc = "phase1" =>
            /\ result'.iterations > 0
            /\ bestResult # << >>
            /\ result'.adjusted = LightnessCandidate(bestResult[1].l)
            /\ result'.ratio = bestResult[1].ratio
       /\ pc = "phase2" =>
            /\ bestResult # << >>
            /\ bestResult[1].l >= 0
            /\ bestResult[1].l <= hexToHsl(request.foreground).s
            /\ result'.adjusted
                 = SaturationCandidate(bestResult[1].l, PinnedLightness)
       /\ pc = "phase3" => bestResult = << >>

\* C24: the strategy names the phase that produced the answer and the phases
\* run in order: "lightness" with iterations > 0 is the last passing
\* midpoint of the lightness search, with only l replaced in the foreground's
\* HSL; "chroma" is returned only when no lightness midpoint passed and some
\* saturation midpoint did, with the original hue, lightness 98 or 2 and a
\* saturation in [0, original]; "fallback" is returned only when no midpoint
\* of either search met the target.
C24_StrategyNamesPhase == [][PhaseStep]_vars

\* a lightness answer after several midpoints: the last one that passed
C24_Witness ==
  /\ Returned
  /\ result.strategy = "lightness"
  /\ result.iterations > 1
  /\ bestResult # << >>
  /\ result.adjusted = LightnessCandidate(bestResult[1].l)
  /\ hexToHsl(result.adjusted).h = hexToHsl(request.foreground).h

\* a fallback answer after midpoints of both searches, none of which passed
C24_WitnessFallback ==
  /\ Returned
  /\ result.strategy = "fallback"
  /\ result.iterations > 8
  /\ bestResult = << >>

\* the foreground is darker than the background: line 76
Lighten == FreshLuminance(request.foreground) < FreshLuminance(request.background)

\* whole-percent lightness of the foreground
OriginalLightness == hexToHsl(request.foreground).l \div Fx

\* contrast against the background of the foreground with lightness l percent
ContrastAtLightness(l) ==
  FreshContrast(LightnessCandidate(l * Fx), request.background)

\* contrast never decreases from one percent of lightness to the next, going
\* away from the original through the interval of the lightness search
ContrastImprovesAway ==
  IF Lighten
  THEN \A l \in OriginalLightness..99 :
         RatioGE(ContrastAtLightness(l + 1), ContrastAtLightness(l))
  ELSE \A l \in 1..OriginalLightness :
         RatioGE(ContrastAtLightness(l - 1), ContrastAtLightness(l))

\* some whole-percent lightness of the interval of the search meets the target
SomeLightnessOfIntervalMeets ==
  IF Lighten
  THEN SomeLightnessMeets(hexToHsl(request.foreground), OriginalLightness, 100)
  ELSE SomeLightnessMeets(hexToHsl(request.foreground), 0, OriginalLightness)

\* C25: along the interval chosen by shouldLighten = (fgLuminance <
\* bgLuminance), [fg.l,100] when true and [0,fg.l] otherwise, moving lightness
\* away from the original monotonically increases the contrast against the
\* background, so whenever some lightness of that interval meets the target
\* the binary search finds a passing midpoint.
C25_SearchesImprovingHalf ==
  /\ (pc = "phase1" /\ iterations = 0) => ContrastImprovesAway
  /\ (Returned /\ ~AlreadyMeets /\ SomeLightnessOfIntervalMeets) =>
       result.strategy = "lightness"

\* what does hold: a passing lightness in the interval searched is found
C25_PassingLightnessFound ==
  (Returned /\ ~AlreadyMeets /\ SomeLightnessOfIntervalMeets) =>
    result.strategy = "lightness"

\* a passing lightness found beyond the point where the candidate's luminance
\* crosses the background's: contrast fell before it rose
C25_FoundAfterCrossing ==
  /\ Returned
  /\ ~AlreadyMeets
  /\ SomeLightnessOfIntervalMeets
  /\ result.strategy = "lightness"
  /\ ~ContrastImprovesAway

\* the contrasts of white and of black against the background
WhiteContrast == FreshContrast(<<"#","f","f","f","f","f","f">>, request.background)

BlackContrast == FreshContrast(<<"#","0","0","0","0","0","0">>, request.background)

\* C26: when adjustColorForContrast returns strategy "fallback", adjusted is
\* "#ffffff" or "#000000", whichever has the higher contrast against the
\* background (black when the two are equal), and ratio is that higher
\* contrast.
C26_FallbackIsBetterOfWhiteAndBlack ==
  (Returned /\ result.strategy = "fallback") =>
    /\ result.adjusted
         = (IF RatioGT(WhiteContrast, BlackContrast)
            THEN <<"#","f","f","f","f","f","f">>
            ELSE <<"#","0","0","0","0","0","0">>)
    /\ result.ratio = FreshContrast(result.adjusted, request.background)
    /\ RatioGE(result.ratio, WhiteContrast)
    /\ RatioGE(result.ratio, BlackContrast)

\* a fallback to white: the background is dark
C26_Witness ==
  /\ Returned
  /\ result.strategy = "fallback"
  /\ result.adjusted = <<"#","f","f","f","f","f","f">>
  /\ RatioGT(WhiteContrast, BlackContrast)
  /\ result.ratio = WhiteContrast

\* a fallback to black: the background is light
C26_WitnessBlack ==
  /\ Returned
  /\ result.strategy = "fallback"
  /\ result.adjusted = <<"#","0","0","0","0","0","0">>
  /\ RatioGT(BlackContrast, WhiteContrast)
  /\ result.ratio = BlackContrast

\* the step is a call of getRelativeLuminance that returns
LuminanceReturned ==
  /\ calls' = calls + 1
  /\ returned'.api = "getRelativeLuminance"
  /\ returned'.ok

\* every key is its own trimmed, uppercased form
KeysTrimmedUpper(cache) ==
  \A k \in DOMAIN cache : k = toUpperCase(trim(k))

\* one step of the process, seen from the keys of the cache
KeyStep ==
  /\ LuminanceReturned =>
       DOMAIN luminanceCache'
         = DOMAIN luminanceCache \cup {toUpperCase(trim(returned'.hex))}
  /\ KeysTrimmedUpper(luminanceCache')
  /\ {<<"#","F","0","0">>, <<"#","F","F","0","0","0","0">>}
       \subseteq DOMAIN luminanceCache' =>
       luminanceCache'[<<"#","F","0","0">>]
         = luminanceCache'[<<"#","F","F","0","0","0","0">>]

C27_WitnessSingleEntry ==
  /\ calls = 2
  /\ returned.api = "getRelativeLuminance"
  /\ returned.hex = <<" "," ","#","F","F","0","0","0","0"," "," ">>
  /\ returned.cached
  /\ DOMAIN luminanceCache = {<<"#","F","F","0","0","0","0">>}

\* C28: in every branch of adjustColorForContrast the reported ratio is the
\* contrast of the returned colour against the background; it is never a
\* ratio measured on another candidate.
C28_RatioIsContrastOfAdjusted ==
  pc = "done" =>
    result.ratio = FreshContrast(result.adjusted, request.background)

\* a lightness search that moved the colour and returned it with its ratio
C28_Witness ==
  /\ pc = "done"
  /\ result.strategy = "lightness"
  /\ result.iterations > 0
  /\ result.adjusted # request.foreground
  /\ result.ratio = FreshContrast(result.adjusted, request.background)

RECURSIVE Bisections(_, _, _, _)
\* the number of halvings that lead from the interval [a, b] to [lo, hi]
Bisections(lo, hi, a, b) ==
  IF (a = lo /\ b = hi) \/ b - a <= 1
  THEN 0
  ELSE IF hi <= (a + b) \div 2
       THEN 1 + Bisections(lo, hi, a, (a + b) \div 2)
       ELSE 1 + Bisections(lo, hi, (a + b) \div 2, b)

\* the midpoints the lightness search has tested, read off its interval
Phase1Tests ==
  IF shouldLighten
  THEN Bisections(low, high, fgHsl.l, 100 * Fx)
  ELSE Bisections(low, high, 0, fgHsl.l)

\* the midpoints the saturation search has tested, read off its interval
Phase2Tests == Bisections(low, high, 0, fgHsl.s)

\* C29: the iteration caps never end a search. The lightness search tests at
\* most 8 midpoints and leaves its loop because the interval is at most 0.5
\* wide; the saturation search tests at most 7 and leaves because the
\* interval is at most 1 wide; a result reports at most 15 iterations.
C29_WidthTestEndsSearches ==
  /\ pc = "phase1" =>
       /\ iterations = Phase1Tests
       /\ iterations <= 8
       /\ ~Phase1Continue(low, high, iterations) => high - low <= Fx \div 2
  /\ pc \in {"phase2", "phase3"} =>
       /\ Phase2Tests <= 7
       /\ iterations - Phase2Tests <= 8
       /\ ~Phase2Continue(low, high, iterations) => high - low <= Fx
  /\ pc = "done" => result.iterations <= 15

\* both searches ran their full length: 8 midpoints, then 7, then the fallback
C29_Witness ==
  /\ pc = "done"
  /\ result.strategy = "fallback"
  /\ result.iterations = 15
  /\ Phase2Tests = 7
  /\ high - low <= Fx

\* C30: the cache is sound in every state any sequence of calls can reach,
\* failing calls included: every key is a trimmed, uppercased string that
\* hexToRgb accepts, its value is the relative luminance of the colour the
\* key denotes, and no invalid string is ever a key.
C30_CacheSound ==
  \A k \in DOMAIN luminanceCache :
    /\ k = toUpperCase(trim(k))
    /\ ValidHex(k)
    /\ luminanceCache[k] = Luminance(hexToRgb(k))

\* a call has just thrown on a cache that holds the entry of "#aabb" followed
\* by U+FB00, stored under "#AABBFF"
C30_Witness ==
  /\ returned.api \in {"getRelativeLuminance", "calculateContrast"}
  /\ ~returned.ok
  /\ <<"#","A","A","B","B","F","F">> \in DOMAIN luminanceCache
  /\ <<"#","a","a","b","b",FfLigature>> \notin DOMAIN luminanceCache
  /\ luminanceCache[<<"#","A","A","B","B","F","F">>]
       = Luminance([r |-> 170, g |-> 187, b |-> 255])

====
